---- MODULE Spec2Model ----
(***************************************************************************)
(* One render pass of the Scottish Births dashboard (src/app.py).  The     *)
(* script runs top to bottom once per user interaction: the widget values  *)
(* are its inputs, the data frames it builds are its state, and pc is the  *)
(* section of the script that runs next.  An uncaught exception stops the  *)
(* script where it is raised (pc = "aborted").                             *)
(***************************************************************************)
EXTENDS Integers, Sequences, FiniteSets, TLC

VARIABLES
    df,               \* the cached source table, a sequence of rows
    year_range,       \* <<lo, hi>> of the year slider
    months,           \* list of the month multiselect, in selection order
    regions,          \* list of the region multiselect
    selected_ages,    \* list of the age-group multiselect
    enable_forecast,  \* the forecasting checkbox
    forecast_months,  \* the horizon slider
    pc,               \* the section of the script that runs next
    exception,        \* the uncaught exception that stopped the script
    shown,            \* the elements rendered on the page so far
    filtered_df,
    total_births, avg_births, top_region, dominant_age,
    yearly, monthly_avg,
    age_dist, region_share, age_trend, region_trend,
    heat_df,
    prophet_df, model, future, forecast, forecast_display

inputs == <<df, year_range, months, regions, selected_ages, enable_forecast,
            forecast_months>>
kpis == <<total_births, avg_births, top_region, dominant_age>>
charts == <<yearly, monthly_avg, age_dist, region_share, age_trend,
            region_trend, heat_df>>
prophet == <<prophet_df, model, future, forecast, forecast_display>>
vars == <<inputs, pc, exception, shown, filtered_df, kpis, charts, prophet>>

----------------------------------------------------------------------------
(* Program constants *)

\* list(calendar.month_name): index 0 is the empty string, 1..12 the months
month_name == <<"", "January", "February", "March", "April", "May", "June",
                "July", "August", "September", "October", "November",
                "December">>

month_order == Tail(month_name)

\* the '%b' abbreviations of strftime, by month number
month_abbr == <<"Jan", "Feb", "Mar", "Apr", "May", "Jun", "Jul", "Aug",
                "Sep", "Oct", "Nov", "Dec">>

age_cols == <<"<20", "20-29", "30-39", "40+">>

MinHorizon == 3
MaxHorizon == 36
DefaultHorizon == 12

\* Prophet.fit refuses a history of fewer than two non-null rows
MinFitRows == 2

----------------------------------------------------------------------------
(* Generic helpers *)

Range(s) == {s[i] : i \in DOMAIN s}

RECURSIVE SeqSum(_)
SeqSum(s) == IF s = <<>> THEN 0 ELSE Head(s) + SeqSum(Tail(s))

RECURSIVE SeqProd(_)
SeqProd(s) == IF s = <<>> THEN 1 ELSE Head(s) * SeqProd(Tail(s))

IndexOf(s, x) == CHOOSE i \in DOMAIN s : s[i] = x

\* Python's ordering of the strings that occur as group keys (code point order)
Collation == <<"April", "August", "December", "East", "February", "January",
               "July", "June", "March", "May", "North", "November",
               "October", "September", "West">>

StrRank(s) == IndexOf(Collation, s)

\* the elements of S in ascending order of rank[x]
RECURSIVE SortSet(_, _)
SortSet(S, rank) ==
    IF S = {} THEN <<>>
    ELSE LET m == CHOOSE x \in S : \A y \in S : rank[x] <= rank[y]
         IN  <<m>> \o SortSet(S \ {m}, rank)

\* a float that is a ratio of integers; den = 0 is NaN
Ratio(num, den) == [num |-> num, den |-> den]
IsNaN(x) == x.den = 0

----------------------------------------------------------------------------
(* pandas operations used by the script *)

\* Series.between(left, right): inclusive on both ends
between(x, left, right) == left <= x /\ x <= right

\* Series.isin(values)
isin(x, values) == \E i \in DOMAIN values : values[i] = x

\* Series.sum() of a column of the rows
ColSum(rows, col) == SeqSum([i \in DOMAIN rows |-> rows[i][col]])

\* Series.mean() of a column: NaN on no rows
ColMean(rows, col) == Ratio(ColSum(rows, col), Len(rows))

\* the group key of a row under groupby(cols): the scalar of the column for
\* one column, the tuple of the columns' values for several
GroupKey(r, cols) ==
    IF Len(cols) = 1 THEN r[cols[1]] ELSE [j \in DOMAIN cols |-> r[cols[j]]]

\* the rows of a group
GroupRows(rows, cols, k) == SelectSeq(rows, LAMBDA r : GroupKey(r, cols) = k)

\* the place of a column value in the ordering of its column: years are
\* ints, months and regions are strings
ValueRank(col, v) == IF col = "year" THEN v ELSE StrRank(v)

\* the place of a group key in the lexicographic ordering of the keys
KeyRank(cols, k) ==
    IF Len(cols) = 1 THEN ValueRank(cols[1], k)
    ELSE ValueRank(cols[1], k[1]) * (Len(Collation) + 1)
             + ValueRank(cols[2], k[2])

\* groupby(cols) sorts the group keys (sort=True is the default)
GroupKeys(rows, cols) ==
    LET K == {GroupKey(rows[i], cols) : i \in DOMAIN rows}
    IN  SortSet(K, [k \in K |-> KeyRank(cols, k)])

\* Series.idxmax(): the label of the first occurrence of the maximum
idxmax(series) ==
    LET i == CHOOSE j \in DOMAIN series :
                 /\ \A k \in DOMAIN series : series[k].value <= series[j].value
                 /\ \A k \in 1..(j - 1) : series[k].value < series[j].value
    IN  series[i].label

\* Series.reindex(labels): the labels in the given order, NaN where absent
reindex(series, labels, missing) ==
    [i \in DOMAIN labels |->
        IF \E j \in DOMAIN series : series[j].label = labels[i]
        THEN series[CHOOSE j \in DOMAIN series : series[j].label = labels[i]]
        ELSE [label |-> labels[i], value |-> missing]]

\* DataFrame.tail(n)
tail(frame, n) ==
    IF n = 0 THEN <<>>
    ELSE IF Len(frame) <= n THEN frame
    ELSE SubSeq(frame, Len(frame) - n + 1, Len(frame))


\* groupby(cols)['birth_count'].sum(): one entry per key, keys ascending
GroupSum(rows, cols) ==
    LET keys == GroupKeys(rows, cols)
    IN  [i \in DOMAIN keys |->
            [label |-> keys[i],
             value |-> ColSum(GroupRows(rows, cols, keys[i]), "birth_count")]]

\* groupby(cols)['birth_count'].mean()
GroupMean(rows, cols) ==
    LET keys == GroupKeys(rows, cols)
    IN  [i \in DOMAIN keys |->
            [label |-> keys[i],
             value |-> ColMean(GroupRows(rows, cols, keys[i]), "birth_count")]]

\* frame[cols].sum(): one entry per selected column, in the order selected
ColumnTotals(rows, cols) ==
    [i \in DOMAIN cols |->
        [label |-> cols[i], value |-> ColSum(rows, cols[i])]]

\* Series.mean() of a series of ratios: NaN on an empty series
MeanOfRatios(series) ==
    LET n    == Len(series)
        dens == [i \in 1..n |-> series[i].value.den]
        all  == SeqProd(dens)
        nums == [i \in 1..n |-> series[i].value.num * (all \div dens[i])]
    IN  IF n = 0 THEN Ratio(0, 0) ELSE Ratio(SeqSum(nums), n * all)

\* Series.unstack() of a series keyed by <<row label, column label>>:
\* a matrix over the sorted row labels and the sorted column labels, NaN in
\* the cells that have no entry
unstack(series) ==
    LET R == {series[i].label[1] : i \in DOMAIN series}
        C == {series[i].label[2] : i \in DOMAIN series}
        cell(r, c) ==
            IF \E i \in DOMAIN series : series[i].label = <<r, c>>
            THEN series[CHOOSE i \in DOMAIN series :
                            series[i].label = <<r, c>>].value
            ELSE Ratio(0, 0)
    IN  [index   |-> SortSet(R, [r \in R |-> StrRank(r)]),
         columns |-> SortSet(C, [c \in C |-> StrRank(c)]),
         data    |-> [rc \in R \X C |-> cell(rc[1], rc[2])]]

\* DataFrame.reindex(columns=labels): the columns in the given order, NaN in
\* the columns the frame did not have
reindex_columns(frame, labels) ==
    LET R == Range(frame.index)
        old == Range(frame.columns)
    IN  [index   |-> frame.index,
         columns |-> labels,
         data    |-> [rc \in R \X Range(labels) |->
                         IF rc[2] \in old THEN frame.data[rc]
                         ELSE Ratio(0, 0)]]

\* reset_index() of a grouped series: one row per entry
YearRows(series) ==
    [i \in DOMAIN series |->
        [year |-> series[i].label, birth_count |-> series[i].value]]
MonthRows(series) ==
    [i \in DOMAIN series |->
        [month |-> series[i].label, birth_count |-> series[i].value]]
RegionRows(series) ==
    [i \in DOMAIN series |->
        [region |-> series[i].label, birth_count |-> series[i].value]]
YearMonthRows(series) ==
    [i \in DOMAIN series |->
        [year |-> series[i].label[1], month |-> series[i].label[2],
         birth_count |-> series[i].value]]
YearRegionRows(series) ==
    [i \in DOMAIN series |->
        [year |-> series[i].label[1], region |-> series[i].label[2],
         birth_count |-> series[i].value]]

----------------------------------------------------------------------------
(* Dates *)

\* pd.to_datetime(dict(year=, month=, day=))
to_datetime(y, m, d) == [year |-> y, month |-> m, day |-> d]

DateRank(d) == (d.year * 12 + (d.month - 1)) * 31 + (d.day - 1)

\* the first of the month k months after the month of d
AddMonths(d, k) ==
    LET t == d.year * 12 + (d.month - 1) + k
    IN  [year |-> t \div 12, month |-> (t % 12) + 1, day |-> 1]

\* pd.date_range(start, periods, freq='MS'): month starts, from start on
date_range(start, periods) ==
    LET first == IF start.day = 1 THEN start ELSE AddMonths(start, 1)
    IN  [i \in 1..periods |-> AddMonths(first, i - 1)]

\* Series.dt.strftime('%b %Y')
strftime(d) == <<month_abbr[d.month], d.year>>

----------------------------------------------------------------------------
(* Prophet, as the script uses it *)

\* Prophet.fit(df) raises ValueError on fewer than two non-null rows
FitRaises(history) == Len(history) < MinFitRows

\* Prophet.fit(df) keeps the sorted distinct dates of the history
Fit(history) ==
    LET D == {history[i].ds : i \in DOMAIN history}
    IN  [history_dates |-> SortSet(D, [d \in D |-> DateRank(d)])]

\* Prophet.make_future_dataframe(periods, freq='MS'): the history dates,
\* then the first `periods` month starts after the last of them
make_future_dataframe(m, periods) ==
    LET last_date == m.history_dates[Len(m.history_dates)]
        dates == SelectSeq(date_range(last_date, periods + 1),
                           LAMBDA d : DateRank(d) > DateRank(last_date))
        kept  == SubSeq(dates, 1, IF Len(dates) < periods THEN Len(dates)
                                  ELSE periods)
        all   == m.history_dates \o kept
    IN  [i \in DOMAIN all |-> [ds |-> all[i]]]

\* Prophet.predict(future): one estimate per row of future, in its order
\* (the estimates themselves are the library's and are not modelled)
predict(fut) == [i \in DOMAIN fut |-> [ds |-> fut[i].ds]]

----------------------------------------------------------------------------
(* Inputs: the source tables and widget values the pass is checked on *)

MaxRows == 2

\* the (year, month) pairs of the sample rows: two months of one year that
\* are not adjacent and whose names sort against the calendar, and a second year
SampleDates == {<<2020, "January">>, <<2020, "April">>, <<2021, "January">>}
SampleMonths == {d[2] : d \in SampleDates}
RegionNames == {"East", "West"}

AgesA == ("<20" :> 10) @@ ("20-29" :> 40) @@ ("30-39" :> 30) @@ ("40+" :> 5)
AgesB == ("<20" :> 50) @@ ("20-29" :> 10) @@ ("30-39" :> 30) @@ ("40+" :> 10)

\* a row's birth_count with its age-group counts
Values == {[birth_count |-> 100, ages |-> AgesA],
           [birth_count |-> 0, ages |-> AgesB]}

Row(y, m, reg, v) ==
    [year |-> y, month |-> m, region |-> reg, birth_count |-> v.birth_count]
        @@ v.ages

RowPool == {Row(d[1], d[2], reg, v) :
                d \in SampleDates, reg \in RegionNames, v \in Values}

\* the rows of one region and one value, for the runs over every horizon
SeriesPool == {Row(d[1], d[2], "East", [birth_count |-> 100, ages |-> AgesA]) :
                   d \in SampleDates}

TablesOf(pool) == UNION {[1..n -> pool] : n \in 1..MaxRows}
Tables == TablesOf(RowPool)

\* region "East" with birth_count 100 in every month of 2020 and 2021
EastTable ==
    [i \in 1..24 |->
        Row(2020 + ((i - 1) \div 12), month_order[((i - 1) % 12) + 1], "East",
            [birth_count |-> 100, ages |-> AgesA])]

MinYear(t) == CHOOSE y \in {t[i].year : i \in DOMAIN t} :
                  \A i \in DOMAIN t : y <= t[i].year
MaxYear(t) == CHOOSE y \in {t[i].year : i \in DOMAIN t} :
                  \A i \in DOMAIN t : y >= t[i].year

\* the year slider: a pair within the years of the table
YearRanges(t) == {<<lo, hi>> \in (MinYear(t)..MaxYear(t)) \X
                                 (MinYear(t)..MaxYear(t)) : lo <= hi}

\* sorted(df['region'].unique()), the options of the region multiselect
RegionOptions(t) ==
    LET R == {t[i].region : i \in DOMAIN t}
    IN  SortSet(R, [r \in R |-> StrRank(r)])

\* the month multiselect: nothing, one month, two months picked against the
\* calendar, and the default
MonthSelections == {<<>>, <<"January">>, <<"April", "January">>, month_order}

\* the region multiselect: every subset of the options, in their order
RegionSelections(t) ==
    {SelectSeq(RegionOptions(t), LAMBDA r : r \in S) :
        S \in SUBSET Range(RegionOptions(t))}

\* the age multiselect: every subset in the order of age_cols, and the
\* whole list selected in reverse
AgeSelections ==
    {SelectSeq(age_cols, LAMBDA a : a \in S) : S \in SUBSET Range(age_cols)}
        \cup {[i \in 1..Len(age_cols) |-> age_cols[Len(age_cols) + 1 - i]]}

Horizons == MinHorizon..MaxHorizon

NoException == [line |-> 0, type |-> "none"]

----------------------------------------------------------------------------
(* The state before the script body runs: the table is loaded, the widgets
   hold their values, nothing is computed or rendered yet *)

Start(t, yr, ms, rs, ages, fc, h) ==
    /\ df = t
    /\ year_range = yr
    /\ months = ms
    /\ regions = rs
    /\ selected_ages = ages
    /\ enable_forecast = fc
    /\ forecast_months = h
    /\ pc = "filter"
    /\ exception = NoException
    /\ shown = {}
    /\ filtered_df = <<>>
    /\ total_births = 0
    /\ avg_births = Ratio(0, 0)
    /\ top_region = ""
    /\ dominant_age = ""
    /\ yearly = <<>>
    /\ monthly_avg = <<>>
    /\ age_dist = <<>>
    /\ region_share = <<>>
    /\ age_trend = <<>>
    /\ region_trend = <<>>
    /\ heat_df = [index |-> <<>>, columns |-> <<>>, data |-> <<>>]
    /\ prophet_df = <<>>
    /\ model = [history_dates |-> <<>>]
    /\ future = <<>>
    /\ forecast = <<>>
    /\ forecast_display = <<>>

\* the widgets' default values (lines 69-87)
DefaultRange(t) == <<MinYear(t), MaxYear(t)>>

\* year, month and region filters varied, forecasting on
InitFilters ==
    \E t \in Tables : \E yr \in YearRanges(t) : \E ms \in MonthSelections :
    \E rs \in RegionSelections(t) :
        Start(t, yr, ms, rs, age_cols, TRUE, DefaultHorizon)

\* the age selection varied, forecasting off
InitAges ==
    \E t \in Tables : \E ages \in AgeSelections :
        Start(t, DefaultRange(t), month_order, RegionOptions(t), ages, FALSE,
              DefaultHorizon)

\* every horizon of the slider, the other widgets at their defaults
InitHorizon ==
    \E t \in TablesOf(SeriesPool) : \E h \in Horizons :
        Start(t, DefaultRange(t), month_order, RegionOptions(t), age_cols,
              TRUE, h)

\* the two-year single-region table, all widgets at their defaults
InitScenario ==
    \E fc \in BOOLEAN :
        Start(EastTable, DefaultRange(EastTable), month_order,
              RegionOptions(EastTable), age_cols, fc, DefaultHorizon)

Init == InitFilters \/ InitAges \/ InitHorizon \/ InitScenario

----------------------------------------------------------------------------
(* The sections of the script *)

Raise(line, type) ==
    /\ pc' = "aborted"
    /\ exception' = [line |-> line, type |-> type]

\* Filter with the upper end of the year range left out
Filter_open_upper(table, yr, ms, rs) ==
    SelectSeq(table, LAMBDA r : /\ yr[1] <= r.year /\ r.year < yr[2]
                                /\ isin(r.month, ms)
                                /\ isin(r.region, rs))

\* lines 92-94
Filter(table, yr, ms, rs) ==
    SelectSeq(table, LAMBDA r : /\ between(r.year, yr[1], yr[2])
                                /\ isin(r.month, ms)
                                /\ isin(r.region, rs))

FilterData ==
    /\ pc = "filter"
    /\ filtered_df' = Filter(df, year_range, months, regions)
    /\ pc' = "kpis"
    /\ UNCHANGED <<inputs, exception, shown, kpis, charts, prophet>>

\* line 99
TotalBirths(rows) == ColSum(rows, "birth_count")
\* line 100
AvgBirths(rows) == MeanOfRatios(GroupMean(rows, <<"region">>))
\* RegionTotals with the rows of a region counted instead of summed
RegionTotals_count(rows) ==
    LET keys == GroupKeys(rows, <<"region">>)
    IN  [i \in DOMAIN keys |->
            [label |-> keys[i],
             value |-> Len(GroupRows(rows, <<"region">>, keys[i]))]]

\* line 101: the series idxmax is taken of
RegionTotals(rows) == GroupSum(rows, <<"region">>)
\* line 102: the series idxmax is taken of
AgeTotals(rows, ages) == ColumnTotals(rows, ages)

\* lines 99-113: idxmax of an empty series raises ValueError, and so does
\* int() of NaN
KPIs ==
    /\ pc = "kpis"
    /\ total_births' = TotalBirths(filtered_df)
    /\ avg_births' = AvgBirths(filtered_df)
    /\ IF RegionTotals(filtered_df) = <<>>
       THEN /\ Raise(101, "ValueError")
            /\ UNCHANGED <<top_region, dominant_age, shown>>
       ELSE /\ top_region' = idxmax(RegionTotals(filtered_df))
            /\ IF AgeTotals(filtered_df, selected_ages) = <<>>
               THEN /\ Raise(102, "ValueError")
                    /\ UNCHANGED <<dominant_age, shown>>
               ELSE /\ dominant_age' =
                           idxmax(AgeTotals(filtered_df, selected_ages))
                    /\ IF IsNaN(avg_births')
                       THEN /\ Raise(109, "ValueError")
                            /\ UNCHANGED shown
                       ELSE /\ shown' = shown \cup {"kpis"}
                            /\ pc' = "overview"
                            /\ UNCHANGED exception
    /\ UNCHANGED <<inputs, filtered_df, charts, prophet>>

\* Yearly with the first row of a year taken instead of the sum
Yearly_first(rows) ==
    LET keys == GroupKeys(rows, <<"year">>)
    IN  [i \in DOMAIN keys |->
            [year |-> keys[i],
             birth_count |->
                 GroupRows(rows, <<"year">>, keys[i])[1].birth_count]]

\* MonthlyAvg without the reindex to month_order
MonthlyAvg_group_order(rows) == MonthRows(GroupMean(rows, <<"month">>))

\* line 124
Yearly(rows) == YearRows(GroupSum(rows, <<"year">>))
\* line 131
MonthlyAvg(rows) ==
    MonthRows(reindex(GroupMean(rows, <<"month">>), month_order,
                      Ratio(0, 0)))

\* lines 120-135
OverviewGraphs ==
    /\ pc = "overview"
    /\ yearly' = Yearly(filtered_df)
    /\ monthly_avg' = MonthlyAvg(filtered_df)
    /\ shown' = shown \cup {"yearly", "monthly"}
    /\ pc' = "distribution"
    /\ UNCHANGED <<inputs, exception, filtered_df, kpis, age_dist,
                   region_share, age_trend, region_trend, heat_df, prophet>>

\* line 151
RegionShare(rows) == RegionRows(GroupSum(rows, <<"region">>))
\* line 162: per year, the total of each selected age column
AgeTrend(rows, ages) ==
    LET ys == GroupKeys(rows, <<"year">>)
    IN  [i \in DOMAIN ys |->
            [year |-> ys[i],
             totals |-> ColumnTotals(GroupRows(rows, <<"year">>, ys[i]),
                                     ages)]]
\* line 169
RegionTrend(rows) ==
    YearRegionRows(GroupSum(rows, <<"year", "region">>))

\* lines 140-172
Distribution ==
    /\ pc = "distribution"
    /\ age_dist' = ColumnTotals(filtered_df, selected_ages)
    /\ region_share' = RegionShare(filtered_df)
    /\ age_trend' = AgeTrend(filtered_df, selected_ages)
    /\ region_trend' = RegionTrend(filtered_df)
    /\ shown' = shown \cup {"age_pie", "region_pie", "age_trend",
                            "region_trend"}
    /\ pc' = "heatmap"
    /\ UNCHANGED <<inputs, exception, filtered_df, kpis, yearly, monthly_avg,
                   heat_df, prophet>>

\* HeatDf with the missing cells filled with 0
HeatDf_zero_filled(rows) ==
    LET frame == reindex_columns(
                     unstack(GroupMean(rows, <<"region", "month">>)),
                     month_order)
    IN  [frame EXCEPT !.data =
            [rc \in DOMAIN frame.data |->
                IF IsNaN(frame.data[rc]) THEN Ratio(0, 1) ELSE frame.data[rc]]]

\* line 179
HeatDf(rows) ==
    reindex_columns(unstack(GroupMean(rows, <<"region", "month">>)),
                    month_order)

\* lines 177-182
Heatmap ==
    /\ pc = "heatmap"
    /\ heat_df' = HeatDf(filtered_df)
    /\ shown' = shown \cup {"heatmap"}
    /\ pc' = "forecast"
    /\ UNCHANGED <<inputs, exception, filtered_df, kpis, yearly, monthly_avg,
                   age_dist, region_share, age_trend, region_trend, prophet>>

\* ProphetDf with the month looked up in month_order, whose index starts at
\* January = 0
ProphetDf_zero_based(rows) ==
    LET g == YearMonthRows(GroupSum(rows, <<"year", "month">>))
    IN  [i \in DOMAIN g |->
            [ds |-> to_datetime(g[i].year, IndexOf(month_order, g[i].month) - 1,
                                1),
             y  |-> g[i].birth_count]]

\* lines 190-194: the (year, month) totals in group order, the month name
\* turned into its number and the pair into the first of that month
ProphetDf(rows) ==
    LET g == YearMonthRows(GroupSum(rows, <<"year", "month">>))
    IN  [i \in DOMAIN g |->
            [ds |-> to_datetime(g[i].year, IndexOf(month_name, g[i].month) - 1,
                                1),
             y  |-> g[i].birth_count]]

\* lines 187-194
ForecastInput ==
    /\ pc = "forecast"
    /\ IF enable_forecast
       THEN /\ prophet_df' = ProphetDf(filtered_df)
            /\ pc' = "fit"
       ELSE /\ pc' = "done"
            /\ UNCHANGED prophet_df
    /\ UNCHANGED <<inputs, exception, shown, filtered_df, kpis, charts,
                   model, future, forecast, forecast_display>>

\* lines 196-197: nothing around the call catches what fit raises
ModelFit ==
    /\ pc = "fit"
    /\ IF FitRaises(prophet_df)
       THEN /\ Raise(197, "ValueError")
            /\ UNCHANGED model
       ELSE /\ model' = Fit(prophet_df)
            /\ pc' = "predict"
            /\ UNCHANGED exception
    /\ UNCHANGED <<inputs, shown, filtered_df, kpis, charts, prophet_df,
                   future, forecast, forecast_display>>

\* ForecastDisplay with the first h rows taken instead of the last
ForecastDisplay_head(fc, h) ==
    LET first == SubSeq(fc, 1, IF Len(fc) < h THEN Len(fc) ELSE h)
    IN  [i \in DOMAIN first |-> [Date |-> strftime(first[i].ds)]]

\* lines 206-208
ForecastDisplay(fc, h) ==
    LET last == tail(fc, h)
    IN  [i \in DOMAIN last |-> [Date |-> strftime(last[i].ds)]]

\* lines 199-210
ForecastOutput ==
    /\ pc = "predict"
    /\ future' = make_future_dataframe(model, forecast_months)
    /\ forecast' = predict(future')
    /\ forecast_display' = ForecastDisplay(forecast', forecast_months)
    /\ shown' = shown \cup {"forecast_chart", "forecast_table"}
    /\ pc' = "done"
    /\ UNCHANGED <<inputs, exception, filtered_df, kpis, charts, prophet_df,
                   model>>

Next ==
    \/ FilterData
    \/ KPIs
    \/ OverviewGraphs
    \/ Distribution
    \/ Heatmap
    \/ ForecastInput
    \/ ModelFit
    \/ ForecastOutput

Spec == Init /\ [][Next]_vars

----------------------------------------------------------------------------
(* What has run *)

FilterDone == pc # "filter"
KPIsDone == "kpis" \in shown
OverviewDone == "yearly" \in shown
HeatmapDone == "heatmap" \in shown
SeriesBuilt == pc \in {"fit", "predict"} \/ exception.line = 197
                  \/ "forecast_table" \in shown
TableShown == "forecast_table" \in shown
Ended == pc \in {"done", "aborted"}

\* how often the row r occurs in the table t
Occurrences(t, r) == Cardinality({i \in DOMAIN t : t[i] = r})

\* a row passes the year, month and region filters
Passes(r) ==
    /\ r.year >= year_range[1]
    /\ r.year <= year_range[2]
    /\ r.month \in Range(months)
    /\ r.region \in Range(regions)

CalendarOrder ==
    <<"January", "February", "March", "April", "May", "June", "July",
      "August", "September", "October", "November", "December">>

----------------------------------------------------------------------------
(* C1 *)

\* C1: the filtered table holds exactly the rows of the source table whose
\* year is in the inclusive year range, whose month is selected and whose
\* region is selected, each as often as the source holds it and in the
\* source's order, and it is never longer than the source.
C1_FilterExact ==
    FilterDone =>
        /\ \A i \in DOMAIN filtered_df : Passes(filtered_df[i])
        /\ \A r \in Range(df) :
              Occurrences(filtered_df, r) =
                  IF Passes(r) THEN Occurrences(df, r) ELSE 0
        /\ Len(filtered_df) <= Len(df)

\* some rows of the source are kept and some are dropped
C1_Witness ==
    /\ FilterDone
    /\ filtered_df # <<>>
    /\ Len(filtered_df) < Len(df)
    /\ year_range[1] = year_range[2]

----------------------------------------------------------------------------
(* C2 *)

\* C2: with an empty filtered table the KPI section raises nothing, shows
\* its tiles, and the pass goes on to the charts.
C2_EmptyTableTolerated ==
    (pc \notin {"filter", "kpis"} /\ filtered_df = <<>>) =>
        /\ exception = NoException
        /\ KPIsDone
        /\ pc # "aborted"

----------------------------------------------------------------------------
(* C3 *)

\* C3: the birth counts of the yearly aggregate add up to the birth counts of
\* the filtered rows, which is the Total Births KPI, and the aggregate has
\* exactly one row for each year of the filtered table and no other row.
C3_YearlyConservesTotal ==
    OverviewDone =>
        LET Y == {filtered_df[i].year : i \in DOMAIN filtered_df}
        IN  /\ SeqSum([i \in DOMAIN yearly |-> yearly[i].birth_count]) =
                   SeqSum([i \in DOMAIN filtered_df |->
                              filtered_df[i].birth_count])
            /\ SeqSum([i \in DOMAIN yearly |-> yearly[i].birth_count]) =
                   total_births
            /\ \A y \in Y :
                  Cardinality({i \in DOMAIN yearly : yearly[i].year = y}) = 1
            /\ \A i \in DOMAIN yearly : yearly[i].year \in Y

\* a year with several rows, counts that are not all zero
C3_Witness ==
    /\ OverviewDone
    /\ Len(filtered_df) > Len(yearly)
    /\ total_births > 0

----------------------------------------------------------------------------
(* C4 *)

\* C4: the monthly-average aggregate and the columns of the heatmap matrix
\* list the twelve months January to December in calendar order, whatever
\* the order of the rows and of the selected months.
C4_CalendarOrder ==
    /\ OverviewDone =>
          [i \in DOMAIN monthly_avg |-> monthly_avg[i].month] = CalendarOrder
    /\ HeatmapDone => heat_df.columns = CalendarOrder

\* April before January in the selection and in the rows, both with data
C4_Witness ==
    /\ HeatmapDone
    /\ months = <<"April", "January">>
    /\ Len(filtered_df) = 2
    /\ filtered_df[1].month = "April"
    /\ filtered_df[2].month = "January"
    /\ ~IsNaN(monthly_avg[1].birth_count)
    /\ ~IsNaN(monthly_avg[4].birth_count)

----------------------------------------------------------------------------
(* C5 *)

\* C5: a heatmap cell is NaN exactly when no filtered row has its region and
\* month, and otherwise it is the mean of those rows' birth counts, so a
\* pair without rows never reads as a mean of 0; a region without filtered
\* rows has no row in the matrix.
C5_MissingCellsAreNull ==
    HeatmapDone =>
        \A r \in {df[i].region : i \in DOMAIN df} :
        \A m \in Range(CalendarOrder) :
            LET cell(x) == x.region = r /\ x.month = m
                n == Cardinality({i \in DOMAIN filtered_df :
                                     cell(filtered_df[i])})
                total == SeqSum([i \in DOMAIN filtered_df |->
                                    IF cell(filtered_df[i])
                                    THEN filtered_df[i].birth_count ELSE 0])
            IN  IF r \in Range(heat_df.index)
                THEN /\ IsNaN(heat_df.data[<<r, m>>]) <=> n = 0
                     /\ n > 0 => heat_df.data[<<r, m>>] = Ratio(total, n)
                ELSE n = 0

\* a region with a true zero mean in one month and no rows in a month that
\* another region has rows in
C5_Witness ==
    /\ HeatmapDone
    /\ \E r \in Range(heat_df.index) : \E m1, m2 \in SampleMonths :
          /\ heat_df.data[<<r, m1>>] = Ratio(0, 1)
          /\ IsNaN(heat_df.data[<<r, m2>>])
          /\ \E q \in Range(heat_df.index) : ~IsNaN(heat_df.data[<<q, m2>>])

----------------------------------------------------------------------------
(* C6 *)

\* the summed birth_count of a region over the filtered rows
RegionSumOf(r) ==
    SeqSum([i \in DOMAIN filtered_df |->
               IF filtered_df[i].region = r THEN filtered_df[i].birth_count
               ELSE 0])

\* C6: top_region is a region of the filtered table whose summed birth_count
\* is the largest; among regions that tie for the largest it is the first in
\* sorted order, so it depends on the filtered rows' contents alone and not
\* on their order.  One region "East" with 100 births in every month of 2020
\* and 2021 gives total 2400, top region "East" and the yearly aggregate
\* 2020: 1200, 2021: 1200.
C6_TopRegion ==
    LET present == {filtered_df[i].region : i \in DOMAIN filtered_df}
    IN  /\ KPIsDone =>
              /\ top_region \in present
              /\ \A r \in present : RegionSumOf(r) <= RegionSumOf(top_region)
              /\ \A r \in present :
                    RegionSumOf(r) = RegionSumOf(top_region) =>
                        StrRank(top_region) <= StrRank(r)
        /\ (/\ OverviewDone
            /\ df = EastTable
            /\ year_range = <<2020, 2021>>
            /\ months = CalendarOrder
            /\ regions = <<"East">>
            /\ selected_ages = age_cols) =>
              /\ total_births = 2400
              /\ top_region = "East"
              /\ yearly = <<[year |-> 2020, birth_count |-> 1200],
                            [year |-> 2021, birth_count |-> 1200]>>

\* two regions tie for the largest total, the later one first in the rows
C6_Witness ==
    /\ KPIsDone
    /\ Len(filtered_df) = 2
    /\ filtered_df[1].region = "West"
    /\ filtered_df[2].region = "East"
    /\ RegionSumOf("East") = RegionSumOf("West")
    /\ RegionSumOf("East") > 0
    /\ top_region = "East"

----------------------------------------------------------------------------
(* C7 *)

\* the total of an age column over the filtered rows
AgeSumOf(a) == SeqSum([i \in DOMAIN filtered_df |-> filtered_df[i][a]])

\* C7: the age selection does not change the filtered rows or the aggregates
\* taken of them: whatever ages are selected, a pass over a non-empty
\* filtered table shows the KPIs, and when it has ended it has the yearly,
\* monthly, region and heatmap aggregates of the rows that pass the year,
\* month and region filters; dominant_age is a selected column whose total
\* is the largest among the selected columns.
C7_AgeSelectionFrame ==
    (pc \notin {"filter", "kpis"} /\ filtered_df # <<>>) =>
        /\ filtered_df = SelectSeq(df, Passes)
        /\ KPIsDone
        /\ total_births = SeqSum([i \in DOMAIN filtered_df |->
                                     filtered_df[i].birth_count])
        /\ dominant_age \in Range(selected_ages)
        /\ \A a \in Range(selected_ages) : AgeSumOf(a) <= AgeSumOf(dominant_age)
        /\ Ended => /\ OverviewDone
                    /\ HeatmapDone
                    /\ Len(yearly) > 0
                    /\ Len(region_share) > 0
                    /\ Len(monthly_avg) = Len(CalendarOrder)

----------------------------------------------------------------------------
(* C8 *)

\* C8: a forecast fit that fails ends the forecast section with a warning
\* in the forecast panel and the pass completed, never with an uncaught
\* exception that stops the script.
C8_FitFailureCaught ==
    (enable_forecast /\ Ended /\ HeatmapDone /\ FitRaises(prophet_df)) =>
        /\ pc = "done"
        /\ exception = NoException
        /\ "forecast_warning" \in shown

----------------------------------------------------------------------------
(* C9 *)

\* months since year 0 of a date
MonthNo(d) == d.year * 12 + (d.month - 1)

\* C9 as claimed: the series handed to the model is strictly ordered by date
\* and has one row for every calendar month from its first to its last date.
C9_OrderedAndGapFree ==
    SeriesBuilt =>
        /\ \A i \in 1..(Len(prophet_df) - 1) :
              MonthNo(prophet_df[i].ds) < MonthNo(prophet_df[i + 1].ds)
        /\ \A i, j \in DOMAIN prophet_df :
              \A n \in MonthNo(prophet_df[i].ds)..MonthNo(prophet_df[j].ds) :
                  \E k \in DOMAIN prophet_df : MonthNo(prophet_df[k].ds) = n

\* C9 amended: the series has exactly one row for every (year, month) pair
\* that occurs in the filtered table, dated the first of that month and
\* valued the sum of birth_count over the pair's rows; the rows are ordered
\* by year and, within a year, by month name in alphabetical order; a month
\* without filtered rows has no row.
C9_OneRowPerPresentMonth ==
    SeriesBuilt =>
        LET P == {<<filtered_df[i].year, filtered_df[i].month>> :
                     i \in DOMAIN filtered_df}
            num(m) == CHOOSE k \in 1..12 : CalendarOrder[k] = m
            total(p) == SeqSum([i \in DOMAIN filtered_df |->
                           IF /\ filtered_df[i].year = p[1]
                              /\ filtered_df[i].month = p[2]
                           THEN filtered_df[i].birth_count ELSE 0])
        IN  /\ Len(prophet_df) = Cardinality(P)
            /\ \A p \in P :
                  Cardinality({i \in DOMAIN prophet_df :
                      /\ prophet_df[i].ds = [year |-> p[1],
                                             month |-> num(p[2]),
                                             day |-> 1]
                      /\ prophet_df[i].y = total(p)}) = 1
            /\ \A i \in 1..(Len(prophet_df) - 1) :
                  LET a == prophet_df[i].ds
                      b == prophet_df[i + 1].ds
                  IN  \/ a.year < b.year
                      \/ /\ a.year = b.year
                         /\ StrRank(CalendarOrder[a.month]) <
                                StrRank(CalendarOrder[b.month])

\* April 2020 stands before January 2020, and February and March are absent
C9_Witness ==
    /\ SeriesBuilt
    /\ Len(prophet_df) = 2
    /\ prophet_df[1].ds = [year |-> 2020, month |-> 4, day |-> 1]
    /\ prophet_df[2].ds = [year |-> 2020, month |-> 1, day |-> 1]

----------------------------------------------------------------------------
(* C10 *)

\* C10: the forecast summary table has exactly forecast_months rows, and row
\* i is the i-th month after the latest month of the input series: no row is
\* a date of the history and no month of the horizon is left out.
C10_TableIsTheHorizon ==
    TableShown =>
        LET last == CHOOSE n \in {MonthNo(prophet_df[i].ds) :
                                     i \in DOMAIN prophet_df} :
                        \A i \in DOMAIN prophet_df :
                            MonthNo(prophet_df[i].ds) <= n
        IN  /\ Len(forecast_display) = forecast_months
            /\ \A i \in 1..forecast_months :
                  forecast_display[i].Date =
                      <<month_abbr[((last + i) % 12) + 1], (last + i) \div 12>>

\* the longest horizon, over a series whose rows are not in date order
C10_Witness ==
    /\ TableShown
    /\ forecast_months = MaxHorizon
    /\ MonthNo(prophet_df[1].ds) > MonthNo(prophet_df[2].ds)
    /\ forecast_display[1].Date = <<"May", 2020>>
    /\ forecast_display[MaxHorizon].Date = <<"Apr", 2023>>

====
